---- MODULE Spec2Model ----
(***************************************************************************)
(* A model of flstweak.py: the walk over the images of a Winner Micro .fls *)
(* firmware container (parse_firmware / process_image), the detection of   *)
(* the container type, the JAMCRC checksum and the replacement of image    *)
(* data.                                                                   *)
(*                                                                         *)
(* Bytes are the integers 0..255 and a file is a sequence of bytes.  A     *)
(* 32-bit unsigned value (a field unpacked with "<I", a checksum) is the   *)
(* pair <<lo, hi>> of its 16-bit halves, value = lo + 65536 * hi, because  *)
(* the model checker's integers are 32-bit signed.  An image number is     *)
(* held in tenths (the code's 0.1 is 1, its 1 is 10).                      *)
(***************************************************************************)
EXTENDS Integers, Sequences, FiniteSets, TLC

VARIABLES
    file,          \* the input container: the bytes of args.filename
    rmode,         \* args.replace: "none", "single", "dir" or "bad"
    pairs,         \* the reference/modified files, in processing order
    ftype,         \* firmware_type: "", "W60x" or "W80x"
    pos,           \* file.tell() of the input container
    image_number,  \* parse_firmware's image_number, in tenths
    status,        \* "start", "walk", "end", "fatal" or "crash"
    err,           \* the error that ended the walk ("" when none)
    calls,         \* history: one record per call of process_image
    images,        \* history: the images reported by print_image_info
    out,           \* the bytes written to the output container
    outOpen,       \* whether the output container was opened
    rd             \* replace_data applied on its own: arguments and result

vars == <<file, rmode, pairs, ftype, pos, image_number, status, err, calls,
          images, out, outOpen, rd>>

(***************************************************************************)
(* Program constants.                                                      *)
(***************************************************************************)
HEADER_SIZE_W80X == 64
HEADER_SIZE_W60X == 56
W60X_HEADER_PADDING == 200
WRAPPER_OFFSET == 56

\* 0xA0FFFF9F
MAGIC_WORD == <<65439, 41215>>
\* 0x947D8E12
W60X_HEADER_PADDING_CRC == <<36370, 38013>>
\* 0x27445404
W60X_FILLER_CRC == <<21508, 10052>>

(***************************************************************************)
(* Bytes and 32-bit words.                                                 *)
(***************************************************************************)
Min(a, b) == IF a < b THEN a ELSE b

\* The one element of a singleton set.  Val({e(x) : x \in {d}}) is e(d) with
\* d evaluated once: x is bound to the value of d.
Val(S) == CHOOSE x \in S : TRUE

RECURSIVE Xor(_, _)
Xor(a, b) ==
    IF a = 0 THEN b
    ELSE IF b = 0 THEN a
    ELSE ((a + b) % 2) + 2 * Xor(a \div 2, b \div 2)

Xor32(x, y) == <<Xor(x[1], y[1]), Xor(x[2], y[2])>>

\* ~x & 0xFFFFFFFF
Not32(x) == <<65535 - x[1], 65535 - x[2]>>

\* x >> 1 and x >> 8 on 32 bits
Shr1(x) == <<(x[1] \div 2) + 32768 * (x[2] % 2), x[2] \div 2>>
Shr8(x) == <<(x[1] \div 256) + 256 * (x[2] % 256), x[2] \div 256>>

\* struct.unpack("<I", b): four bytes, little-endian
unpackI(b) == <<b[1] + 256 * b[2], b[3] + 256 * b[4]>>

\* struct.pack("<I", x)
packI(x) == <<x[1] % 256, x[1] \div 256, x[2] % 256, x[2] \div 256>>

\* an integer below 2^31 as a 32-bit word
ToU32(n) == <<n % 65536, n \div 65536>>

(***************************************************************************)
(* The checksum: binascii.crc32 (CRC-32, reflected polynomial 0xEDB88320,  *)
(* initial value and final xor 0xFFFFFFFF), complemented by crc32().  The  *)
(* register is held as its four bytes, low byte first.                     *)
(***************************************************************************)
CrcPoly == <<33568, 60856>>

RECURSIVE CrcBits(_, _)
CrcBits(c, k) ==
    IF k = 0 THEN c
    ELSE Val({CrcBits(IF v[1] % 2 = 1 THEN Xor32(Shr1(v), CrcPoly) ELSE Shr1(v), k - 1) :
                 v \in {c}})

CrcTable == [i \in 0..255 |-> packI(CrcBits(<<i, 0>>, 8))]

XorByte == [a \in 0..255 |-> [b \in 0..255 |-> Xor(a, b)]]

\* table[(c ^ b) & 0xFF] ^ (c >> 8)
CrcByte(c, b) ==
    Val({<<XorByte[c[2]][e[1]], XorByte[c[3]][e[2]], XorByte[c[4]][e[3]], e[4]>> :
            e \in {CrcTable[XorByte[c[1]][b]]}})

\* the CRC register after the bytes data[lo..hi], taken in order (by halves,
\* to keep the evaluation shallow)
RECURSIVE CrcFold(_, _, _, _)
CrcFold(c, data, lo, hi) ==
    IF lo > hi THEN c
    ELSE IF lo = hi THEN CrcByte(c, data[lo])
    ELSE Val({CrcFold(l, data, ((lo + hi) \div 2) + 1, hi) :
                 l \in {CrcFold(c, data, lo, (lo + hi) \div 2)}})

binascii_crc32(data) ==
    Val({Val({Not32(unpackI(c)) : c \in {CrcFold(<<255, 255, 255, 255>>, d, 1, Len(d))}}) :
            d \in {data}})

crc32(data) == Val({Not32(w) : w \in {binascii_crc32(data)}})

(***************************************************************************)
(* The header layouts.  A decoded header is the tuple struct.unpack gives  *)
(* (index i of the code is index i + 1 here): 32-bit words, and the 16     *)
(* bytes of the version string.                                            *)
(***************************************************************************)
Word(b, off) == unpackI(SubSeq(b, off + 1, off + 4))

\* struct.unpack("<IIIIIIIII16sI", b)
unpack_w60x(data) ==
    Val({
    <<Word(b, 0), Word(b, 4), Word(b, 8), Word(b, 12), Word(b, 16), Word(b, 20),
      Word(b, 24), Word(b, 28), Word(b, 32), SubSeq(b, 37, 52), Word(b, 52)>>
    : b \in {data}})

\* struct.pack("<IIIIIIIII16sI", *h)
pack_w60x(header) ==
    Val({
    packI(h[1]) \o packI(h[2]) \o packI(h[3]) \o packI(h[4]) \o packI(h[5])
    \o packI(h[6]) \o packI(h[7]) \o packI(h[8]) \o packI(h[9]) \o h[10]
    \o packI(h[11])
    : h \in {header}})

\* struct.unpack("<IIIIIIII16sIIII", b)
unpack_w80x(data) ==
    Val({
    <<Word(b, 0), Word(b, 4), Word(b, 8), Word(b, 12), Word(b, 16), Word(b, 20),
      Word(b, 24), Word(b, 28), SubSeq(b, 33, 48), Word(b, 48), Word(b, 52),
      Word(b, 56), Word(b, 60)>>
    : b \in {data}})

\* struct.pack("<IIIIIIII16sIII", *h[:12]): the header without its checksum
pack_w80x_data(header) ==
    Val({
    packI(h[1]) \o packI(h[2]) \o packI(h[3]) \o packI(h[4]) \o packI(h[5])
    \o packI(h[6]) \o packI(h[7]) \o packI(h[8]) \o h[9] \o packI(h[10])
    \o packI(h[11]) \o packI(h[12])
    : h \in {header}})

\* the header packed with the wrong field in the place of its checksum
pack_w80x_wrong_field(header) ==
    Val({pack_w80x_data(h) \o packI(h[12]) : h \in {header}})

\* struct.pack("<IIIIIIII16sIIII", *h)
pack_w80x(header) ==
    Val({pack_w80x_data(h) \o packI(h[13]) : h \in {header}})

\* validate_header: TRUE when it returns True, FALSE when it raises ValueError
validate_header(header, header_size, hd_checksum) ==
    LET data_size == header_size - 4
        checksum == crc32(SubSeq(header, 1, data_size))
    IN  checksum = hd_checksum

(***************************************************************************)
(* Reading the input container at a cursor.                                *)
(***************************************************************************)
\* file.read(n) at position p: the bytes there are, at most n of them
read(f, p, n) == SubSeq(f, p + 1, Min(p + n, Len(f)))

\* file.read(img_len) reading one byte too few
read_len_short(f, p, w) ==
    IF w[2] > Len(f) \div 65536 THEN SubSeq(f, p + 1, Len(f))
    ELSE SubSeq(f, p + 1, Min(p + w[1] + 65536 * w[2] - 1, Len(f)))

\* file.read(img_len), img_len a 32-bit word: img_len bytes, or the bytes
\* there are.  A length whose high half is above that of the length of the
\* file is more than the file holds and reads to the end of it; any other
\* length is computed, lo + 65536 * hi
read_len(f, p, w) ==
    IF w[2] > Len(f) \div 65536 THEN read(f, p, Len(f))
    ELSE read(f, p, w[1] + 65536 * w[2])

\* the size test dropped
len_differs_never(body, img_len) == FALSE

\* len(body) != img_len
len_differs(body, img_len) == ToU32(Len(body)) # img_len

FF4 == <<255, 255, 255, 255>>

\* the loop without file.seek(-4, 1)
RECURSIVE skip_filler_no_rewind(_, _)
skip_filler_no_rewind(f, p) ==
    Val({IF Len(padding_test) < 4 THEN p + Len(padding_test)
         ELSE IF padding_test # FF4 THEN p + 4
         ELSE Val({skip_filler_no_rewind(f, q) : q \in {p + 4}}) :
            padding_test \in {read(f, p, 4)}})

\* the loop that discards 0xFF filler: the cursor after it
RECURSIVE skip_filler(_, _)
skip_filler(f, p) ==
    Val({IF Len(padding_test) < 4 THEN p + Len(padding_test)
         ELSE IF padding_test # FF4 THEN p
         ELSE Val({skip_filler(f, q) : q \in {p + 4}}) :
            padding_test \in {read(f, p, 4)}})

\* the second header read, after the filler that follows the cursor p1
read_after_filler(f, p1) ==
    Val({Val({[data |-> again, pos |-> p2 + Len(again), skipped |-> p2 - p1] :
                 again \in {read(f, p2, HEADER_SIZE_W60X)}}) :
            p2 \in {skip_filler(f, p1)}})

\* the header read that opens process_image: the block read and the cursor
read_header(f, t, p) ==
    IF t = "W60x"
    THEN Val({IF crc32(header_data) = W60X_FILLER_CRC
              THEN read_after_filler(f, p + Len(header_data))
              ELSE [data |-> header_data, pos |-> p + Len(header_data), skipped |-> 0] :
                 header_data \in {read(f, p, HEADER_SIZE_W60X)}})
    ELSE Val({[data |-> header_data, pos |-> p + Len(header_data), skipped |-> 0] :
                 header_data \in {read(f, p, HEADER_SIZE_W80X)}})

\* the padding block looked for whatever the firmware type
body_start_any_type(f, t, p) ==
    LET filler_test == read(f, p, W60X_HEADER_PADDING)
    IN  IF crc32(filler_test) = W60X_HEADER_PADDING_CRC
        THEN p + W60X_HEADER_PADDING
        ELSE p

\* where the body read starts: W60x peeks a padding block after the header
body_start(f, t, p) ==
    IF t = "W60x"
    THEN LET filler_test == read(f, p, W60X_HEADER_PADDING)
         IN  IF crc32(filler_test) = W60X_HEADER_PADDING_CRC
             THEN p + W60X_HEADER_PADDING
             ELSE p
    ELSE p

(***************************************************************************)
(* Replacement of image data.                                              *)
(***************************************************************************)
\* body.rfind(ref_data) in the place of body.find(ref_data)
find_last(body, ref_data) ==
    Val({IF hits = {} THEN -1 ELSE CHOOSE i \in hits : \A j \in hits : i >= j :
            hits \in {{i \in 0..(Len(body) - Len(ref_data)) :
                          SubSeq(body, i + 1, i + Len(ref_data)) = ref_data}}})

\* body.find(ref_data): the first index (from 0) where ref_data occurs, or -1
find(body, ref_data) ==
    Val({IF hits = {} THEN -1 ELSE CHOOSE i \in hits : \A j \in hits : i <= j :
            hits \in {{i \in 0..(Len(body) - Len(ref_data)) :
                          SubSeq(body, i + 1, i + Len(ref_data)) = ref_data}}})

\* replace_data: <<body after replacement, whether ref_data was found>>
replace_data(body, ref_data, mod_data) ==
    Val({IF ref_index = -1 THEN <<body, FALSE>>
         ELSE <<SubSeq(body, 1, ref_index) \o mod_data
                  \o SubSeq(body, ref_index + Len(ref_data) + 1, Len(body)), TRUE>> :
            ref_index \in {find(body, ref_data)}})

\* new_body before the first call of replace_data binds it
Unbound == <<-1>>

\* one reference file of a directory, always searched in the original body
replace_one_unthreaded(pr, i, body, st) ==
    IF ~pr.hasMod \/ Len(pr.ref) # Len(pr.mod) THEN st
    ELSE Val({<<r[1], r[2], Append(st[3], [file |-> i, matched |-> r[2]])>> :
                 r \in {replace_data(body, pr.ref, pr.mod)}})

\* one reference file of a directory: st is <<new_body, replaced,
\* replaced_files>> before it, the result is the same after it
replace_one(pr, i, body, st) ==
    IF ~pr.hasMod \/ Len(pr.ref) # Len(pr.mod) THEN st
    ELSE Val({<<r[1], IF st[2] THEN TRUE ELSE r[2],
                Append(st[3], [file |-> i, matched |-> r[2]])>> :
                 r \in {IF st[2] THEN replace_data(st[1], pr.ref, pr.mod)
                        ELSE replace_data(body, pr.ref, pr.mod)}})

\* the loop over the reference files of a directory, from file i on
RECURSIVE replace_dir(_, _, _, _)
replace_dir(prs, i, body, st) ==
    IF i > Len(prs) THEN st
    ELSE Val({replace_dir(prs, i + 1, body, st1) :
                 st1 \in {replace_one(prs[i], i, body, st)}})

NoReplace(e) ==
    [error |-> e, new_body |-> Unbound, replaced |-> FALSE, results |-> <<>>]

\* the replacement branch with the size test of the single pair left out
replace_stage_unchecked(rm, prs, body) ==
    IF rm = "dir"
    THEN IF prs = <<>> THEN NoReplace("norefs")
         ELSE Val({[error |-> "", new_body |-> st[1], replaced |-> st[2],
                    results |-> st[3]] :
                      st \in {replace_dir(prs, 1, body, <<Unbound, FALSE, <<>>>>)}})
    ELSE IF rm = "single"
    THEN IF ~prs[1].hasMod THEN NoReplace("nomod")
         ELSE Val({[error |-> "", new_body |-> r[1], replaced |-> r[2],
                    results |-> <<[file |-> 1, matched |-> r[2]]>>] :
                      r \in {replace_data(body, prs[1].ref, prs[1].mod)}})
    ELSE NoReplace("badtarget")

\* the replacement branch of process_image for a valid body: the error it
\* raises ("" when none), new_body, replaced and the per-file results
replace_stage(rm, prs, body) ==
    IF rm = "dir"
    THEN IF prs = <<>> THEN NoReplace("norefs")
         ELSE Val({[error |-> "", new_body |-> st[1], replaced |-> st[2],
                    results |-> st[3]] :
                      st \in {replace_dir(prs, 1, body, <<Unbound, FALSE, <<>>>>)}})
    ELSE IF rm = "single"
    THEN IF ~prs[1].hasMod THEN NoReplace("nomod")
         ELSE IF Len(prs[1].ref) # Len(prs[1].mod) THEN NoReplace("lenmismatch")
         ELSE Val({[error |-> "", new_body |-> r[1], replaced |-> r[2],
                    results |-> <<[file |-> 1, matched |-> r[2]]>>] :
                      r \in {replace_data(body, prs[1].ref, prs[1].mod)}})
    ELSE NoReplace("badtarget")

\* the header checksum taken over the header as it was read
new_header_of_stale(header, new_body) ==
    [header EXCEPT ![7] = crc32(new_body), ![13] = crc32(pack_w80x_data(header))]

\* the header written for a replaced image: the image checksum, then the
\* header checksum over the updated first twelve fields
new_header_of(header, new_body) ==
    Val({[h6 EXCEPT ![13] = crc32(pack_w80x_data(h6))] :
            h6 \in {[header EXCEPT ![7] = crc32(new_body)]}})

\* the header as read written before the new body
written_record_old_header(header, body, rs) ==
    IF rs.replaced
    THEN pack_w80x(header) \o rs.new_body
    ELSE pack_w80x(header) \o body

\* what process_image writes to the output for an image it tried to replace
written_record(header, body, rs) ==
    IF rs.replaced
    THEN pack_w80x(new_header_of(header, rs.new_body)) \o rs.new_body
    ELSE pack_w80x(header) \o body

(***************************************************************************)
(* print_image_info decodes the 16 bytes of the version field as ASCII     *)
(* before it prints anything: header[9] for W60x, header[8] for W80x (the  *)
(* fields 10 and 9 of the decoded header here).  A byte of 128 or more     *)
(* raises UnicodeDecodeError, which is a ValueError.                       *)
(***************************************************************************)
\* b.decode('ascii'): TRUE when it returns, FALSE when it raises
decode_ascii(b) == \A i \in 1..Len(b) : b[i] < 128

\* print_image_info: TRUE when it returns, FALSE when it raises
print_image_info(t, header) ==
    IF t = "W60x" THEN decode_ascii(header[10]) ELSE decode_ascii(header[9])

(***************************************************************************)
(* process_image: one call, as the record of what it did.                  *)
(*   outcome   "emit" (it returned the next image number), "end" (it       *)
(*             returned None), or the exception it raised: the ValueErrors *)
(*             "magic", "size", "hdrcrc", "norefs", "nomod",               *)
(*             "lenmismatch", "badtarget", "decode" (the                   *)
(*             UnicodeDecodeError of print_image_info), or "struct" (a     *)
(*             struct.error)                                               *)
(*   pos       the cursor when it returned or raised                       *)
(*   ret       the image number returned                                   *)
(*   announced whether "Image <num>:" was printed, and num                 *)
(*   readAt    the cursor when it was called                               *)
(*   empty     whether its header read (the second one after filler)       *)
(*             returned no bytes                                           *)
(*   wrap      whether the cursor was moved back to offset 56              *)
(*   skipped   the filler bytes discarded before the header                *)
(*   hdrAt/hdr where the header block was read, and the block              *)
(*   bodyAt/body, size_valid, checksum_valid: the body read and its report *)
(*   tried     whether the replacement branch was entered                  *)
(*   written   the bytes it wrote to the output                            *)
(***************************************************************************)
Idle ==
    [outcome |-> "", pos |-> 0, ret |-> 0, announced |-> FALSE, num |-> 0,
     readAt |-> 0, empty |-> FALSE, wrap |-> FALSE, skipped |-> 0, hdrAt |-> 0, hdr |-> <<>>, bodyAt |-> 0,
     body |-> <<>>, size_valid |-> FALSE, checksum_valid |-> FALSE,
     tried |-> FALSE, replaced |-> FALSE, new_body |-> <<>>, results |-> <<>>,
     written |-> <<>>]

\* the end of process_image for a body read at bodyAt, body_checksum its
\* checksum: the validity of the body, the replacement, the writes to the
\* output and then the report of print_image_info, which raises after the
\* writes and before the [Replace] lines when the version does not decode
process_replace(t, rm, prs, header, bodyAt, body, body_checksum) ==
    LET img_len == header[4]
        org_checksum == IF t = "W60x" THEN header[5] ELSE header[7]
        valid_body == ~(len_differs(body, img_len) \/ body_checksum # org_checksum)
        seen == [pos |-> bodyAt + Len(body), bodyAt |-> bodyAt, body |-> body,
                 size_valid |-> ~len_differs(body, img_len),
                 checksum_valid |-> (org_checksum = body_checksum),
                 tried |-> (rm # "none" /\ valid_body)]
    IN  IF ~(rm # "none" /\ valid_body)
        THEN seen @@ [outcome |-> IF print_image_info(t, header) THEN "emit"
                                  ELSE "decode"]
        ELSE Val({IF rs.error # "" THEN seen @@ [outcome |-> rs.error]
                  ELSE IF t = "W60x" THEN seen @@ [outcome |-> "struct"]
                  ELSE IF ~print_image_info(t, header)
                  THEN seen @@ [outcome |-> "decode", replaced |-> rs.replaced,
                                new_body |-> rs.new_body,
                                written |-> written_record(header, body, rs)]
                  ELSE seen @@ [outcome |-> "emit", replaced |-> rs.replaced,
                                new_body |-> rs.new_body, results |-> rs.results,
                                written |-> written_record(header, body, rs)] :
                     rs \in {replace_stage(rm, prs, body)}})

\* process_image from the body read on: header is the decoded header, at
\* the cursor after it
process_body(f, t, rm, prs, at, header) ==
    Val({Val({process_replace(t, rm, prs, header, bodyAt, body, crc32(body)) :
                 body \in {read_len(f, bodyAt, header[4])}}) :
            bodyAt \in {body_start(f, t, at)}})

\* process_image from the magic word on: header_data is the block read at
\* hdrAt, this_number the number announced
process_header(f, t, rm, prs, header_data, header_size, said, next_number) ==
    IF Len(header_data) < 4 THEN ([outcome |-> "struct"] @@ said) @@ Idle
    ELSE IF Word(header_data, 0) # MAGIC_WORD
    THEN ([outcome |-> "magic"] @@ said) @@ Idle
    ELSE IF Len(header_data) # header_size
    THEN ([outcome |-> "size"] @@ said) @@ Idle
    ELSE Val({IF ~validate_header(IF t = "W60x" THEN pack_w60x(header)
                                  ELSE pack_w80x(header),
                                  header_size,
                                  IF t = "W60x" THEN header[11] ELSE header[13])
              THEN ([outcome |-> "hdrcrc"] @@ said) @@ Idle
              ELSE Val({((b @@ [ret |-> next_number]) @@ said) @@ Idle :
                          b \in {process_body(f, t, rm, prs, said.pos, header)}}) :
                 header \in {IF t = "W60x" THEN unpack_w60x(header_data)
                             ELSE unpack_w80x(header_data)}})

\* the wrapper test passed again by the number the first sub-image returns
wrapper_check_sub_images(t, number) == t = "W60x" /\ number \in {1, 10}

\* the wrapper test without the firmware type
wrapper_check_any_type(t, number) == number = 10

\* the test for a wrapper image: firmware_type == "W60x" and image_number == 1
wrapper_check(t, number) == t = "W60x" /\ number = 10

\* process_image after its first header read rh, made at the cursor p
process_read(f, t, p, number, rm, prs, rh) ==
    LET header_size == IF t = "W60x" THEN HEADER_SIZE_W60X ELSE HEADER_SIZE_W80X
        first == wrapper_check(t, number)
        wrap == first /\ rh.data = <<>>
        header_data == IF wrap THEN read(f, WRAPPER_OFFSET, header_size) ELSE rh.data
        hdrAt == IF wrap THEN WRAPPER_OFFSET ELSE rh.pos - Len(rh.data)
        this_number == IF wrap THEN 0 ELSE number
        image_increment == IF wrap THEN 1 ELSE 10
    IN  IF ~first /\ rh.data = <<>>
        THEN [outcome |-> "end", pos |-> rh.pos, skipped |-> rh.skipped,
              hdrAt |-> rh.pos, readAt |-> p, empty |-> TRUE] @@ Idle
        ELSE Val({process_header(f, t, rm, prs, said.hdr, header_size, said,
                                 this_number + image_increment) :
                     said \in {[pos |-> hdrAt + Len(header_data), announced |-> TRUE,
                                num |-> this_number, readAt |-> p,
                                empty |-> (rh.data = <<>>), wrap |-> wrap,
                                skipped |-> rh.skipped, hdrAt |-> hdrAt,
                                hdr |-> header_data]}})

process_image(f, t, p, number, rm, prs) ==
    Val({process_read(f, t, p, number, rm, prs, rh) : rh \in {read_header(f, t, p)}})

\* the size of the block tested before its checksum
detect_firmware_type_size_first(f) ==
    Val({IF Len(header_data) < HEADER_SIZE_W60X THEN "wrongsize"
         ELSE IF Len(header_data) >= HEADER_SIZE_W80X THEN "W80x"
         ELSE IF crc32(SubSeq(header_data, 1, 52)) = Word(header_data, 52) THEN "W60x"
         ELSE "unknown" :
            header_data \in {read(f, 0, HEADER_SIZE_W80X)}})

\* detect_firmware_type: the type, or the ValueError it raises
detect_firmware_type(f) ==
    Val({IF Len(header_data) < HEADER_SIZE_W60X THEN "wrongsize"
         ELSE IF crc32(SubSeq(header_data, 1, 52)) = Word(header_data, 52) THEN "W60x"
         ELSE IF Len(header_data) >= HEADER_SIZE_W80X THEN "W80x"
         ELSE "unknown" :
            header_data \in {read(f, 0, HEADER_SIZE_W80X)}})

(***************************************************************************)
(* parse_firmware.                                                         *)
(***************************************************************************)
\* args.replace handed to process_image whatever the firmware type
replace_target_any_type == IF rmode # "none" THEN rmode ELSE "none"

\* the replace_target parse_firmware hands to process_image
replace_target == IF rmode # "none" /\ ftype # "W60x" THEN rmode ELSE "none"

\* the image_number of parse_firmware after process_image returned None
None == -1

NoRd == [body |-> <<>>, ref |-> <<>>, mod |-> <<>>, res |-> <<>>, done |-> FALSE]

\* the container is opened and its type detected; in replacement mode on a
\* W80x container the output file is opened.  detect_firmware_type reads 64
\* bytes from offset 0 and puts the cursor back where it was, except when it
\* raises "wrong size", which it does before the seek
Detect ==
    /\ status = "start"
    /\ \E t \in {detect_firmware_type(file)} :
          IF t \in {"W60x", "W80x"}
          THEN /\ ftype' = t
               /\ status' = "walk"
               /\ err' = ""
               /\ outOpen' = (rmode # "none" /\ t # "W60x")
               /\ pos' = pos
          ELSE /\ ftype' = ""
               /\ status' = "fatal"
               /\ err' = t
               /\ outOpen' = FALSE
               /\ pos' = IF t = "wrongsize"
                          THEN Len(read(file, 0, HEADER_SIZE_W80X))
                          ELSE pos
    /\ UNCHANGED <<file, rmode, pairs, image_number, calls, images, out, rd>>

\* one turn of the loop of parse_firmware: a call of process_image, and the
\* break on None or on an exception.  image_number is assigned what the call
\* returns (None at the end of the file) and keeps its value when the call
\* raises
ProcessImage ==
    /\ status = "walk"
    /\ \E r \in {process_image(file, ftype, pos, image_number, replace_target, pairs)} :
          /\ pos' = r.pos
          /\ calls' = Append(calls, r)
          /\ out' = out \o r.written
          /\ IF r.outcome = "emit"
             THEN /\ images' = Append(images, [call |-> Len(calls) + 1] @@ r)
                  /\ image_number' = r.ret
                  /\ status' = IF r.ret = 0 THEN "end" ELSE "walk"
                  /\ err' = ""
             ELSE /\ images' = images
                  /\ image_number' = IF r.outcome = "end" THEN None ELSE image_number
                  /\ status' = IF r.outcome = "end" THEN "end"
                               ELSE IF r.outcome = "struct" THEN "crash"
                               ELSE "fatal"
                  /\ err' = IF r.outcome = "end" THEN "" ELSE r.outcome
    /\ UNCHANGED <<file, rmode, pairs, ftype, outOpen, rd>>

Next == Detect \/ ProcessImage

(***************************************************************************)
(* The inputs: containers built image by image.  An image is described by  *)
(* its body and its kind:                                                  *)
(*   "ok"       well-formed                                                *)
(*   "hdrcrc"   the header checksum field is wrong                         *)
(*   "bodycrc"  the image checksum field is wrong                          *)
(*   "short"    the body is three bytes shorter than declared              *)
(*   "magic"    the magic word is wrong (the header checksum matches)      *)
(*   "version"  well-formed, with a byte of 128 in the version field       *)
(*   "versionsum"  the same, and the image checksum field is wrong         *)
(***************************************************************************)
MaxImages == 2
MaxSub == 3
MaxFill == 1

Flip(w) == Xor32(w, <<1, 0>>)

Version == <<49, 46, 48, 0, 0, 0, 0, 0, 0, 0, 0, 0, 0, 0, 0, 0>>
VersionNonAscii == <<49, 46, 48, 128, 0, 0, 0, 0, 0, 0, 0, 0, 0, 0, 0, 0>>

HeaderData(t, magic, len, sum, reserved1, ver) ==
    IF t = "W60x"
    THEN packI(magic) \o packI(<<1, 0>>) \o packI(<<256, 2049>>)
         \o packI(ToU32(len)) \o packI(sum)
         \o packI(<<0, 2057>>) \o packI(<<0, 0>>) \o packI(<<0, 0>>)
         \o packI(<<1, 0>>) \o ver
    ELSE packI(magic) \o packI(<<1, 0>>) \o packI(<<1024, 2049>>)
         \o packI(ToU32(len)) \o packI(<<0, 2049>>)
         \o packI(<<0, 2050>>) \o packI(sum) \o packI(<<1, 0>>)
         \o ver \o packI(<<0, 0>>) \o packI(reserved1)
         \o packI(<<0, 0>>)

HeaderFor(t, kind, full) ==
    Val({Val({Val({data \o packI(IF kind = "hdrcrc" THEN Flip(hsum) ELSE hsum) :
                      hsum \in {crc32(data)}}) :
                 data \in {HeaderData(t, IF kind = "magic" THEN Flip(MAGIC_WORD)
                                         ELSE MAGIC_WORD,
                                      Len(full),
                                      IF kind \in {"bodycrc", "versionsum"}
                                      THEN Flip(sum) ELSE sum,
                                      <<0, 0>>,
                                      IF kind \in {"version", "versionsum"}
                                      THEN VersionNonAscii ELSE Version)}}) :
            sum \in {crc32(full)}})

HeaderBytes(t, d) ==
    HeaderFor(t, d.kind, IF d.kind = "short" THEN d.body \o <<1, 2, 3>> ELSE d.body)

ImageBytes(t, d) == HeaderBytes(t, d) \o d.body

RECURSIVE Concat(_, _, _)
Concat(t, ds, i) ==
    IF i > Len(ds) THEN <<>> ELSE ImageBytes(t, ds[i]) \o Concat(t, ds, i + 1)

Types == {"W60x", "W80x"}
Kinds == {"ok", "hdrcrc", "bodycrc", "short", "magic"}
Bodies == {<<>>, <<65, 66, 67>>}
Tails == {<<>>, <<1, 2>>, <<1, 2, 3, 4, 5>>, packI(MAGIC_WORD) \o <<0, 0>>}

Descs(bodies, kinds) == [body : bodies, kind : kinds]
SeqsUpTo(D, n) == UNION {[1..k -> D] : k \in 1..n}
Ok(body) == [body |-> body, kind |-> "ok"]
FF(n) == [i \in 1..n |-> 255]

\* W60x containers with a wrapper image, with 0xFF filler between images,
\* with filler that runs to the end of the file, and with a padded header
Wrapped(k) == ImageBytes("W60x", Ok(Concat("W60x", [i \in 1..k |-> Ok(<<65, 66>>)], 1)))
Filled(j) ==
    ImageBytes("W60x", Ok(<<65, 66>>)) \o FF(HEADER_SIZE_W60X) \o FF(4 * j)
    \o ImageBytes("W60x", Ok(<<67>>))
FilledToEnd(j) ==
    ImageBytes("W60x", Ok(<<65, 66>>)) \o FF(HEADER_SIZE_W60X) \o FF(4 * j) \o FF(2)
\* a well-formed W60x image whose body begins with 200 bytes of 0xFF
PaddedBody ==
    ImageBytes("W60x", Ok(FF(W60X_HEADER_PADDING) \o <<65>>))
    \o ImageBytes("W60x", Ok(<<67>>))
\* a well-formed W80x image whose second reserved word is the checksum of the
\* 52 bytes before it
Ambiguous ==
    Val({Val({Val({data \o packI(crc32(data)) \o <<65, 66>> :
                      data \in {HeaderData("W80x", MAGIC_WORD, 2, crc32(<<65, 66>>), r,
                                          Version)}}) :
                 r \in {crc32(SubSeq(plain, 1, 52))}}) :
            plain \in {HeaderData("W80x", MAGIC_WORD, 2, crc32(<<65, 66>>), <<0, 0>>,
                                   Version)}})
Padded ==
    HeaderBytes("W60x", Ok(<<65, 66>>)) \o FF(W60X_HEADER_PADDING) \o <<65, 66>>
    \o ImageBytes("W60x", Ok(<<67>>))
\* containers with an image whose version field does not decode as ASCII:
\* first or second in the file, with a valid body or a wrong image checksum,
\* or followed by an image whose body is cut short
NonAscii ==
    {Concat(t, <<[body |-> <<65, 66>>, kind |-> k], Ok(<<67>>)>>, 1) :
        t \in Types, k \in {"version", "versionsum"}}
    \cup {Concat(t, <<Ok(<<65, 66>>), [body |-> <<67>>, kind |-> "version"]>>, 1) :
             t \in Types}
    \cup {Concat(t, <<[body |-> <<65, 66>>, kind |-> "version"],
                      [body |-> <<67>>, kind |-> "short"]>>, 1) : t \in Types}
\* a well-formed W60x image whose body begins with 200 bytes of 0xFF, and
\* then a header whose body is cut short by the end of the file
PaddedTruncated ==
    ImageBytes("W60x", Ok(FF(W60X_HEADER_PADDING) \o <<65>>))
    \o ImageBytes("W60x", [body |-> <<67>>, kind |-> "short"])
\* a W80x image of two bytes whose header declares 65538 (0x00010002)
Oversized ==
    Val({data \o packI(crc32(data)) \o <<65, 66>> :
            data \in {HeaderData("W80x", MAGIC_WORD, 65538, crc32(<<65, 66>>),
                                 <<0, 0>>, Version)}})
Special ==
    {Wrapped(k) : k \in 1..MaxSub} \cup {Filled(j) : j \in 0..MaxFill}
    \cup {FilledToEnd(j) : j \in 0..MaxFill} \cup {Padded, PaddedBody, Ambiguous}
    \cup NonAscii \cup {Oversized, PaddedTruncated}

\* every image record of one type, and the files made of up to MaxImages of them
ImagesOf(t) == {ImageBytes(t, d) : d \in Descs(Bodies, Kinds)}

RECURSIVE Join(_, _)
Join(parts, i) == IF i > Len(parts) THEN <<>> ELSE parts[i] \o Join(parts, i + 1)

ImageRuns ==
    UNION {{Join(ps, 1) : ps \in SeqsUpTo(ImagesOf(t), MaxImages)} : t \in Types}

Containers == {c \o tail : c \in ImageRuns, tail \in Tails} \cup Special

\* the containers that end with their last image, and the special ones
PlainContainers == ImageRuns \cup Special

InitWalk ==
    /\ ftype = ""
    /\ pos = 0
    /\ image_number = 0
    /\ status = "start"
    /\ err = ""
    /\ calls = <<>>
    /\ images = <<>>
    /\ out = <<>>
    /\ outOpen = FALSE
    /\ rd = NoRd

\* a walk with no replacement request
Init ==
    /\ file \in Containers
    /\ rmode = "none"
    /\ pairs = <<>>
    /\ InitWalk

Spec == Init /\ [][Next]_vars

(***************************************************************************)
(* Walks with a replacement request.  A reference file is the record of    *)
(* its bytes, the bytes of its modified file, and whether that file        *)
(* exists.  args.replace names one reference file ("single"), a directory  *)
(* of them ("dir"), or neither ("bad").                                    *)
(***************************************************************************)
MaxPairs == 2

PatchDescs ==
    {Ok(<<65, 66, 65, 66>>), Ok(<<67, 88, 89>>),
     [body |-> <<65, 66, 67>>, kind |-> "bodycrc"],
     [body |-> <<65, 66, 67>>, kind |-> "short"]}

\* W80x containers with an image whose version field does not decode
PatchNonAscii ==
    {Concat("W80x", <<[body |-> <<65, 66, 65, 66>>, kind |-> "version"],
                      Ok(<<67, 88, 89>>)>>, 1),
     Concat("W80x", <<Ok(<<67, 88, 89>>),
                      [body |-> <<65, 66, 65, 66>>, kind |-> "version"]>>, 1)}

PatchContainers ==
    {Concat("W80x", ds, 1) : ds \in SeqsUpTo(PatchDescs, MaxImages)}
    \cup {Concat("W60x", [i \in 1..k |-> Ok(<<65, 66, 65, 66>>)], 1) : k \in 1..MaxImages}
    \cup PatchNonAscii

PairSet ==
    {[ref |-> <<65, 66>>, mod |-> <<88, 89>>, hasMod |-> TRUE],
     [ref |-> <<88, 89>>, mod |-> <<90, 65>>, hasMod |-> TRUE],
     [ref |-> <<68>>, mod |-> <<69>>, hasMod |-> TRUE],
     [ref |-> <<65, 66>>, mod |-> <<88>>, hasMod |-> TRUE],
     [ref |-> <<65, 66>>, mod |-> <<>>, hasMod |-> FALSE]}

PatchConfigs ==
    {<<"single", <<pr>>>> : pr \in PairSet}
    \cup {<<"dir", prs>> : prs \in {<<>>} \cup SeqsUpTo(PairSet, MaxPairs)}
    \cup {<<"bad", <<>>>>}

InitPatch ==
    /\ file \in PatchContainers
    /\ \E c \in PatchConfigs : rmode = c[1] /\ pairs = c[2]
    /\ InitWalk

SpecPatch == InitPatch /\ [][Next]_vars

(***************************************************************************)
(* replace_data on its own, over all small arguments.                      *)
(***************************************************************************)
MaxBody == 4
MaxRef == 2

Alphabet == {65, 66}
SeqsTo(n) == {<<>>} \cup SeqsUpTo(Alphabet, n)

\* b"AABBCCDD", b"BB", b"XX"
Example ==
    [body |-> <<65, 65, 66, 66, 67, 67, 68, 68>>, ref |-> <<66, 66>>,
     mod |-> <<88, 88>>, res |-> <<>>, done |-> FALSE]

InitReplaceData ==
    /\ rd \in [body : SeqsTo(MaxBody), ref : SeqsTo(MaxRef), mod : SeqsTo(MaxRef),
               res : {<<>>}, done : {FALSE}] \cup {Example}
    /\ file = <<>>
    /\ rmode = "none"
    /\ pairs = <<>>
    /\ ftype = ""
    /\ pos = 0
    /\ image_number = 0
    /\ status = "idle"
    /\ err = ""
    /\ calls = <<>>
    /\ images = <<>>
    /\ out = <<>>
    /\ outOpen = FALSE

ReplaceData ==
    /\ ~rd.done
    /\ rd' = [rd EXCEPT !.res = replace_data(rd.body, rd.ref, rd.mod), !.done = TRUE]
    /\ UNCHANGED <<file, rmode, pairs, ftype, pos, image_number, status, err, calls,
                   images, out, outOpen>>

SpecReplaceData == InitReplaceData /\ [][ReplaceData]_vars

(***************************************************************************)
(* Walks over files of every size around the two header sizes: the         *)
(* containers, and containers cut after a few bytes.                       *)
(***************************************************************************)
CutAt == {0, 3, 4, 52, 55, 56, 57, 60, 63, 64}

CutBases ==
    {ImageBytes(t, [body |-> <<65, 66, 67>>, kind |-> k]) \o ImageBytes(t, Ok(<<>>)) :
        t \in Types, k \in {"ok", "hdrcrc", "magic"}}
    \cup {Ambiguous}

CutFiles == {SubSeq(c, 1, n) : c \in CutBases, n \in CutAt}

InitDetect ==
    /\ file \in Containers \cup CutFiles
    /\ rmode = "none"
    /\ pairs = <<>>
    /\ InitWalk

SpecDetect == InitDetect /\ [][Next]_vars

(***************************************************************************)
(* Walks with a replacement request over the containers detected as W60x.  *)
(***************************************************************************)
ContainersW60x == {c \in PlainContainers : detect_firmware_type(c) = "W60x"}

PatchConfigsW60x ==
    {<<"single", <<[ref |-> <<65, 66>>, mod |-> <<88, 89>>, hasMod |-> TRUE]>>>>,
     <<"single", <<[ref |-> <<65, 66>>, mod |-> <<88>>, hasMod |-> TRUE]>>>>,
     <<"dir", <<[ref |-> <<65, 66>>, mod |-> <<88, 89>>, hasMod |-> TRUE]>>>>,
     <<"dir", <<>>>>,
     <<"bad", <<>>>>}

InitPatchW60x ==
    /\ file \in ContainersW60x
    /\ \E c \in PatchConfigsW60x : rmode = c[1] /\ pairs = c[2]
    /\ InitWalk

SpecPatchW60x == InitPatchW60x /\ [][Next]_vars

(***************************************************************************)
(* Walks over containers with 0xFF filler after one or more images: a      *)
(* block of 56 bytes of 0xFF, some 4-byte chunks of 0xFF, and a tail.      *)
(***************************************************************************)
FillerTails(t) ==
    {<<>>, FF(2), FF(3), <<1, 2, 3, 4>>, <<255, 255, 255, 0, 255>>,
     ImageBytes(t, Ok(<<67>>))}

FillerFiles ==
    {Concat(t, [i \in 1..k |-> Ok(<<65, 66>>)], 1) \o FF(HEADER_SIZE_W60X) \o FF(4 * j)
        \o tail :
        t \in Types, k \in 1..MaxImages, j \in 0..MaxFill, tail \in UNION {FillerTails(u) : u \in Types}}

InitFiller ==
    /\ file \in PlainContainers \cup FillerFiles
    /\ rmode = "none"
    /\ pairs = <<>>
    /\ InitWalk

SpecFiller == InitFiller /\ [][Next]_vars

(***************************************************************************)
(* Walks over containers with 0xFF bytes after the first header: a block   *)
(* of 0, 200 or 201 bytes between header and body, and a well-formed image *)
(* whose body begins with 199, 200 or 201 bytes of 0xFF.                   *)
(***************************************************************************)
PaddingFiles ==
    {HeaderBytes(t, Ok(<<65, 66>>)) \o FF(n) \o <<65, 66>> \o ImageBytes(t, Ok(<<67>>)) :
        t \in Types, n \in {0, 200, 201}}
    \cup {ImageBytes(t, Ok(FF(n) \o <<65>>)) \o ImageBytes(t, Ok(<<67>>)) :
             t \in Types, n \in {199, 200, 201}}

InitPadding ==
    /\ file \in PlainContainers \cup PaddingFiles
    /\ rmode = "none"
    /\ pairs = <<>>
    /\ InitWalk

SpecPadding == InitPadding /\ [][Next]_vars

(***************************************************************************)
(* The loop of parse_firmware run to its end.  The loop is sequential: a   *)
(* call that returned a number is followed by the next call, so the step   *)
(* is taken whenever it can be.  The count of calls is capped by a limit   *)
(* read from the length of the file: two calls for each header size of     *)
(* the file, and three more.                                               *)
(***************************************************************************)
CallLimit(f) == 2 * (Len(f) \div HEADER_SIZE_W60X) + 3

ProcessImageCapped == Len(calls) < CallLimit(file) /\ ProcessImage

NextCapped == Detect \/ ProcessImageCapped

LoopFiles == PlainContainers \cup CutFiles \cup FillerFiles \cup PaddingFiles

LoopConfigs ==
    {<<"single", <<[ref |-> <<65, 66>>, mod |-> <<88, 89>>, hasMod |-> TRUE]>>>>,
     <<"single", <<[ref |-> <<65, 66>>, mod |-> <<88>>, hasMod |-> TRUE]>>>>,
     <<"dir", <<>>>>}

InitLoop ==
    /\ \/ file \in LoopFiles /\ rmode = "none" /\ pairs = <<>>
       \/ /\ file \in PatchContainers
          /\ \E c \in LoopConfigs : rmode = c[1] /\ pairs = c[2]
    /\ InitWalk

SpecLoop == InitLoop /\ [][NextCapped]_vars /\ WF_vars(NextCapped)

\* walks with and without a replacement request
InitAll == Init \/ InitPatch

SpecAll == InitAll /\ [][Next]_vars

(***************************************************************************)
(* What the claims are stated with: the layout of a container read         *)
(* straight from its bytes.                                                *)
(***************************************************************************)
HeaderSize(t) == IF t = "W60x" THEN HEADER_SIZE_W60X ELSE HEADER_SIZE_W80X
SumOffset(t) == IF t = "W60x" THEN 16 ELSE 24

Terminal == status \in {"end", "fatal", "crash"}

\* where the 16 bytes of the version field lie in a header
VersionOffset(t) == IF t = "W60x" THEN 36 ELSE 32

\* the version field of the header block b holds ASCII bytes only
AsciiVersion(t, b) ==
    \A i \in 1..16 : VersionOffset(t) + i <= Len(b) => b[VersionOffset(t) + i] < 128
EmittedAt(i) == \E k \in 1..Len(images) : images[k].call = i

\* b is a whole header of layout t: the magic word, the size, the checksum
GoodHeader(t, b) ==
    /\ Len(b) = HeaderSize(t)
    /\ Word(b, 0) = MAGIC_WORD
    /\ crc32(SubSeq(b, 1, HeaderSize(t) - 4)) = Word(b, HeaderSize(t) - 4)

\* the end of the image whose header is at p, when the image is well-formed
\* (a good header, the whole body present, the body checksum right), else -1
ImageEnd(f, t, p) ==
    Val({IF /\ GoodHeader(t, h)
            /\ Word(h, 12)[2] = 0
            /\ p + HeaderSize(t) + Word(h, 12)[1] <= Len(f)
            /\ crc32(SubSeq(f, p + HeaderSize(t) + 1, p + HeaderSize(t) + Word(h, 12)[1]))
                  = Word(h, SumOffset(t))
         THEN p + HeaderSize(t) + Word(h, 12)[1]
         ELSE -1 :
            h \in {read(f, p, HeaderSize(t))}})

\* the header offsets of a container made of well-formed images laid back to
\* back from p to the end of the file; <<-1>> when the container is not so
RECURSIVE Layout(_, _, _)
Layout(f, t, p) ==
    IF p = Len(f) THEN <<>>
    ELSE Val({IF e = -1 THEN <<-1>>
              ELSE Val({IF rest = <<-1>> THEN rest ELSE <<p>> \o rest :
                           rest \in {Layout(f, t, e)}}) :
                 e \in {ImageEnd(f, t, p)}})

\* no 200-byte block after a header of the layout has the padding checksum
NoPadBlock(f, t, lay) ==
    t = "W60x" =>
       \A k \in 1..Len(lay) :
          crc32(read(f, lay[k] + HeaderSize(t), W60X_HEADER_PADDING))
             # W60X_HEADER_PADDING_CRC

\* the version field of every header of the layout holds ASCII bytes only
AsciiVersions(f, t, lay) ==
    \A k \in 1..Len(lay) : AsciiVersion(t, read(f, lay[k], HeaderSize(t)))

\* the walk emitted exactly the images of the layout, in order, each valid
WalkMatches(t, lay) ==
    /\ status = "end"
    /\ Len(images) = Len(lay)
    /\ Cardinality({i \in 1..Len(calls) : calls[i].announced}) = Len(lay)
    /\ \A k \in 1..Len(lay) :
          /\ images[k].hdrAt = lay[k]
          /\ images[k].hdr = read(file, lay[k], HeaderSize(t))
          /\ images[k].body = SubSeq(file, lay[k] + HeaderSize(t) + 1, ImageEnd(file, t, lay[k]))
          /\ images[k].num = 10 * (k - 1)
          /\ images[k].size_valid
          /\ images[k].checksum_valid

\* a call that read a whole header with the right magic word and size whose
\* trailing checksum field is not the checksum of the bytes before it
HeaderChecksumWrong(c) ==
    /\ c.announced
    /\ Len(c.hdr) = HeaderSize(ftype)
    /\ Word(c.hdr, 0) = MAGIC_WORD
    /\ crc32(SubSeq(c.hdr, 1, HeaderSize(ftype) - 4)) # Word(c.hdr, HeaderSize(ftype) - 4)

(***************************************************************************)
(* C1.  A header with the right magic word and size and a wrong checksum.  *)
(* validate_header raises ValueError (lines 80-81) and the loop of         *)
(* parse_firmware breaks on it (362-364, 372-374).                         *)
(***************************************************************************)
\* C1: after a header checksum failure (right magic word, right size) the
\* walk is not aborted: the image is still emitted and the walk goes on to
\* read the next header
C1_Original ==
    \A i \in 1..Len(calls) :
       HeaderChecksumWrong(calls[i]) =>
          /\ EmittedAt(i)
          /\ status = "walk" \/ i < Len(calls)

\* what the code does at such a header: the failure is reported and ends
\* the walk; no image is emitted for the header, no body is read and no
\* further header is read
HeaderChecksumAborts ==
    \A i \in 1..Len(calls) :
       HeaderChecksumWrong(calls[i]) =>
          /\ calls[i].outcome = "hdrcrc"
          /\ ~EmittedAt(i)
          /\ i = Len(calls)
          /\ status = "fatal"
          /\ err = "hdrcrc"
          /\ pos = calls[i].hdrAt + HeaderSize(ftype)

(***************************************************************************)
(* C2.  A container of N well-formed images is walked as N valid images.   *)
(***************************************************************************)
\* C2 as stated: every container of N >= 1 well-formed images laid back to
\* back, of either variant, is walked as exactly those N images, each valid
C2_Original ==
    \A t \in Types :
       Terminal =>
          \A lay \in {Layout(file, t, 0)} :
             (lay # <<>> /\ lay # <<-1>> /\ NoPadBlock(file, t, lay))
                => WalkMatches(t, lay)

\* C2 amended: it holds when the container is detected as the variant of its
\* images, the version field of every header is ASCII and, for W60x, the
\* container has at least two images; a W60x container of one image is
\* walked as that image, and then the cursor is moved back to offset 56
C2_WellFormedWalk ==
    \A t \in Types :
       (Terminal /\ ftype = t) =>
          \A lay \in {Layout(file, t, 0)} :
             (lay # <<>> /\ lay # <<-1>> /\ NoPadBlock(file, t, lay)
                 /\ AsciiVersions(file, t, lay)) =>
                IF t = "W60x" /\ Len(lay) = 1
                THEN /\ Len(images) >= 1
                     /\ images[1].hdrAt = 0
                     /\ images[1].size_valid /\ images[1].checksum_valid
                     /\ Len(calls) >= 2
                     /\ calls[2].wrap
                     /\ calls[2].hdrAt = WRAPPER_OFFSET
                ELSE WalkMatches(t, lay)

C2_Witness ==
    /\ status = "end"
    /\ ftype = "W60x"
    /\ Len(images) = 2
    /\ Len(Layout(file, "W60x", 0)) = 2

(***************************************************************************)
(* C3.  The end of the walk and the move back to offset 56.                *)
(***************************************************************************)
\* C3 as stated: an empty header read after an emitted image ends the walk
\* cleanly for either variant, and the cursor is moved back to offset 56
\* only for W60x and only at the first image of the walk
C3_Original ==
    /\ \A i \in 2..Len(calls) :
          calls[i].empty =>
             /\ calls[i].outcome = "end"
             /\ ~calls[i].wrap
             /\ ~calls[i].announced
    /\ \A i \in 1..Len(calls) : calls[i].wrap => (ftype = "W60x" /\ i = 1)

\* C3 amended: an empty header read after an emitted image ends the walk
\* cleanly, except for W60x at the call that follows the first emitted image
\* (image_number == 1): there, and only there, the cursor is moved back to
\* offset 56 and the walk goes on
C3_CleanEnd ==
    /\ \A i \in 2..Len(calls) :
          (calls[i].empty /\ ~(ftype = "W60x" /\ i = 2)) =>
             /\ calls[i].outcome = "end"
             /\ ~calls[i].wrap
             /\ ~calls[i].announced
             /\ calls[i].pos >= calls[i].readAt
             /\ i = Len(calls)
             /\ status = "end"
             /\ err = ""
             /\ Len(images) = i - 1
    /\ \A i \in 1..Len(calls) :
          calls[i].wrap <=> (ftype = "W60x" /\ i = 2 /\ calls[i].empty)
    /\ \A i \in 1..Len(calls) :
          calls[i].wrap => calls[i].hdrAt = WRAPPER_OFFSET /\ calls[i].announced

C3_Witness ==
    /\ status = "end"
    /\ ftype = "W60x"
    /\ Len(calls) = 3
    /\ calls[3].empty
    /\ \E i \in 1..Len(calls) : calls[i].wrap

(***************************************************************************)
(* C4.  An image with an invalid body.                                     *)
(***************************************************************************)
ReplaceErrors == {"norefs", "nomod", "lenmismatch", "badtarget"}
Declared(c) == Word(c.hdr, 12)
DeclaredSum(c) == Word(c.hdr, SumOffset(ftype))

\* a call that read a good header and then a body that is short or whose
\* checksum is not the declared one
BodyInvalid(c) ==
    /\ c.announced
    /\ GoodHeader(ftype, c.hdr)
    /\ ToU32(Len(c.body)) # Declared(c) \/ crc32(c.body) # DeclaredSum(c)

\* the container is a well-formed image followed by a good header whose body
\* is cut short by the end of the file
TruncatedSecond(f, t) ==
    \E e \in {ImageEnd(f, t, 0)} :
       /\ e # -1
       /\ GoodHeader(t, read(f, e, HeaderSize(t)))
       /\ \/ Word(read(f, e, HeaderSize(t)), 12)[2] > Len(f) \div 65536
          \/ Len(f) - (e + HeaderSize(t))
                < Word(read(f, e, HeaderSize(t)), 12)[1]
                     + 65536 * Word(read(f, e, HeaderSize(t)), 12)[2]

\* what C4 says of a call: the image is emitted, the size and the checksum
\* are reported each on its own, no replacement is tried and nothing is
\* written, and the walk goes on at the cursor the body read left
EmittedInvalid(i) ==
    /\ calls[i].outcome = "emit"
    /\ EmittedAt(i)
    /\ calls[i].body = SubSeq(file, calls[i].bodyAt + 1, calls[i].pos)
    /\ calls[i].size_valid = (ToU32(Len(calls[i].body)) = Declared(calls[i]))
    /\ calls[i].checksum_valid = (crc32(calls[i].body) = DeclaredSum(calls[i]))
    /\ ~calls[i].tried
    /\ ~calls[i].replaced
    /\ calls[i].results = <<>>
    /\ calls[i].written = <<>>
    /\ IF i < Len(calls)
       THEN calls[i + 1].readAt = calls[i].pos
       ELSE status = "walk" /\ pos = calls[i].pos

\* the walk gave exactly two images, the second with size_valid false
TwoImages ==
    /\ status = "end"
    /\ Len(images) = 2
    /\ ~images[2].size_valid

\* C4 as stated: every image whose body is short or fails its checksum is
\* emitted, with the size and the checksum reported each on its own, no
\* replacement is tried on it, and the walk goes on at the cursor the body
\* read left; a container whose second image is cut short gives exactly two
\* images, the second with size_valid false
C4_Original ==
    /\ \A i \in 1..Len(calls) : BodyInvalid(calls[i]) => EmittedInvalid(i)
    /\ (Terminal /\ ftype # "" /\ TruncatedSecond(file, ftype)) => TwoImages

\* C4 amended: the first part holds for the images whose version field is
\* ASCII; the second part holds when, besides, the walk is not stopped at
\* the first image by a faulty replacement request and, for W60x, no block
\* of 200 bytes after a header has the padding checksum
C4_InvalidBodyEmitted ==
    /\ \A i \in 1..Len(calls) :
          (BodyInvalid(calls[i]) /\ AsciiVersion(ftype, calls[i].hdr)) =>
             EmittedInvalid(i)
    /\ (Terminal /\ ftype # "" /\ err \notin ReplaceErrors
           /\ TruncatedSecond(file, ftype)
           /\ NoPadBlock(file, ftype, <<0, ImageEnd(file, ftype, 0)>>)
           /\ AsciiVersions(file, ftype, <<0, ImageEnd(file, ftype, 0)>>)) =>
          TwoImages

C4_Witness ==
    /\ status = "end"
    /\ rmode = "single"
    /\ TruncatedSecond(file, ftype)
    /\ Len(images) = 2
    /\ BodyInvalid(calls[2])
    /\ images[2].checksum_valid = FALSE

(***************************************************************************)
(* C5.  Structural errors.                                                 *)
(***************************************************************************)
\* a call whose header block is not empty and has a wrong magic word or a
\* wrong length
BadBlock(c) ==
    /\ c.announced
    /\ c.hdr # <<>>
    /\ \/ Len(c.hdr) # HeaderSize(ftype)
       \/ Word(c.hdr, 0) # MAGIC_WORD

\* C5: a non-empty header block with a wrong magic word or a wrong length
\* stops the walk with a reported structural error (wrong magic, wrong
\* header size); no image is emitted for it and the stream is not read again
C5_StructuralErrorReported ==
    \A i \in 1..Len(calls) :
       BadBlock(calls[i]) =>
          /\ calls[i].outcome \in {"magic", "size"}
          /\ status = "fatal"
          /\ err = calls[i].outcome
          /\ ~EmittedAt(i)
          /\ i = Len(calls)
          /\ pos = calls[i].hdrAt + Len(calls[i].hdr)

(***************************************************************************)
(* What the replacement claims are stated with: occurrences and the fold   *)
(* of first-occurrence replacement, defined on the bytes.                  *)
(***************************************************************************)
\* ref occurs in body at index i (from 0)
Occurs(body, ref, i) ==
    /\ i + Len(ref) <= Len(body)
    /\ \A k \in 1..Len(ref) : body[i + k] = ref[k]

OccursIn(body, ref) == \E i \in 0..Len(body) : Occurs(body, ref, i)

FirstAt(body, ref) ==
    CHOOSE i \in 0..Len(body) :
       Occurs(body, ref, i) /\ \A j \in 0..(i - 1) : ~Occurs(body, ref, j)

\* body with the n bytes from index i on replaced by mod
Splice(body, i, n, mod) ==
    [k \in 1..Len(body) |-> IF k > i /\ k <= i + n THEN mod[k - i] ELSE body[k]]

\* a pair that is applied: its modified file exists and has the same size
Eligible(pr) == pr.hasMod /\ Len(pr.ref) = Len(pr.mod)

PatchOnce(body, pr) ==
    IF Eligible(pr) /\ OccursIn(body, pr.ref)
    THEN Splice(body, FirstAt(body, pr.ref), Len(pr.ref), pr.mod)
    ELSE body

\* the body after the first k pairs, each applied to the result of the last
RECURSIVE FoldBody(_, _, _)
FoldBody(prs, k, body) ==
    IF k = 0 THEN body ELSE PatchOnce(FoldBody(prs, k - 1, body), prs[k])

\* the report of the first k pairs: for each pair applied, whether its
\* reference occurred in the body as patched by the pairs before it
RECURSIVE Report(_, _, _)
Report(prs, k, body) ==
    IF k = 0 THEN <<>>
    ELSE IF Eligible(prs[k])
    THEN Append(Report(prs, k - 1, body),
                [file |-> k, matched |-> OccursIn(FoldBody(prs, k - 1, body), prs[k].ref)])
    ELSE Report(prs, k - 1, body)

(***************************************************************************)
(* C6.  The header written after a replacement.                            *)
(***************************************************************************)
\* C6: after a replacement that matched in a valid W80x image, the header
\* written has its image checksum field equal to the checksum of the new
\* body and its last field equal to the checksum of its own first 60 bytes;
\* every other byte of it is the byte of the header read
C6_PatchedHeader ==
    \A i \in 1..Len(calls) :
       calls[i].replaced =>
          /\ ftype = "W80x"
          /\ calls[i].size_valid /\ calls[i].checksum_valid
          /\ Len(calls[i].written) = HEADER_SIZE_W80X + Len(calls[i].body)
          /\ SubSeq(calls[i].written, HEADER_SIZE_W80X + 1, Len(calls[i].written))
                = calls[i].new_body
          /\ Word(calls[i].written, 24) = crc32(calls[i].new_body)
          /\ Word(calls[i].written, 60) = crc32(SubSeq(calls[i].written, 1, 60))
          /\ \A k \in (1..24) \cup (29..60) : calls[i].written[k] = calls[i].hdr[k]
          /\ i = Len(calls) =>
                SubSeq(out, Len(out) - Len(calls[i].written) + 1, Len(out))
                   = calls[i].written

C6_Witness ==
    \E i \in 1..Len(calls) :
       /\ calls[i].replaced
       /\ calls[i].new_body # calls[i].body
       /\ Word(calls[i].written, 60) # Word(calls[i].hdr, 60)

(***************************************************************************)
(* C7.  replace_data replaces the first occurrence.                        *)
(***************************************************************************)
\* C7: when the reference and the modified bytes have the same length and
\* the reference occurs in the body, replace_data reports a match and gives
\* a body of the same length that is the modified bytes on the range of the
\* first occurrence and the body elsewhere; AABBCCDD with BB -> XX gives
\* AAXXCCDD
C7_FirstOccurrence ==
    /\ (rd.done /\ Len(rd.ref) = Len(rd.mod) /\ OccursIn(rd.body, rd.ref)) =>
          /\ rd.res[2] = TRUE
          /\ Len(rd.res[1]) = Len(rd.body)
          /\ \A first \in {FirstAt(rd.body, rd.ref)} :
                \A k \in 1..Len(rd.body) :
                   rd.res[1][k] = IF k > first /\ k <= first + Len(rd.ref)
                                  THEN rd.mod[k - first]
                                  ELSE rd.body[k]
    /\ (rd.done /\ rd.body = Example.body /\ rd.ref = Example.ref
          /\ rd.mod = Example.mod) =>
          rd.res = <<<<65, 65, 88, 88, 67, 67, 68, 68>>, TRUE>>

C7_Witness ==
    /\ rd.done
    /\ Len(rd.ref) = Len(rd.mod)
    /\ rd.ref # rd.mod
    /\ rd.ref # <<>>
    /\ Cardinality({i \in 0..Len(rd.body) : Occurs(rd.body, rd.ref, i)}) >= 2
    /\ rd.res[1] # rd.body

(***************************************************************************)
(* C8.  A reference that does not occur.                                   *)
(***************************************************************************)
\* C8: when no reference applied occurs in the body of a valid image, no
\* match is reported and the header and body written for the image are the
\* bytes read from the input (packing the unpacked header gives the header)
C8_NoMatchIdentity ==
    \A i \in 1..Len(calls) :
       (/\ calls[i].tried
        /\ calls[i].outcome \in {"emit", "decode"}
        /\ \A k \in 1..Len(pairs) :
              Eligible(pairs[k]) => ~OccursIn(calls[i].body, pairs[k].ref)) =>
          /\ ~calls[i].replaced
          /\ \A k \in 1..Len(calls[i].results) : ~calls[i].results[k].matched
          /\ calls[i].written = calls[i].hdr \o calls[i].body
          /\ calls[i].written = SubSeq(file, calls[i].hdrAt + 1, calls[i].pos)
          /\ pack_w80x(unpack_w80x(calls[i].hdr)) = calls[i].hdr

C8_Witness ==
    \E i \in 1..Len(calls) :
       /\ rmode = "single"
       /\ calls[i].tried
       /\ calls[i].results = <<[file |-> 1, matched |-> FALSE]>>
       /\ calls[i].written # <<>>
       /\ out = calls[i].written

(***************************************************************************)
(* C9.  A reference and a modified file of different sizes.                *)
(***************************************************************************)
\* a call that read a good header and a body of the declared length and
\* checksum
BodyValid(c) ==
    /\ c.announced
    /\ GoodHeader(ftype, c.hdr)
    /\ ToU32(Len(c.body)) = Declared(c)
    /\ crc32(c.body) = DeclaredSum(c)

\* C9: with one reference file whose modified file has another size, the
\* error is raised at the first valid image, before any search: when it is
\* raised the walk stops, nothing has been written to the output and no body
\* has been searched or altered
C9_SizeErrorFirst ==
    /\ err = "lenmismatch" =>
          /\ status = "fatal"
          /\ rmode = "single"
          /\ out = <<>>
          /\ calls[Len(calls)].outcome = "lenmismatch"
          /\ \A i \in 1..Len(calls) :
                /\ ~calls[i].replaced
                /\ calls[i].written = <<>>
                /\ calls[i].results = <<>>
                /\ calls[i].new_body = <<>>
                /\ calls[i].tried => i = Len(calls)
                /\ calls[i].body = SubSeq(file, calls[i].bodyAt + 1, calls[i].pos)
    /\ (/\ rmode = "single"
        /\ ftype = "W80x"
        /\ pairs[1].hasMod
        /\ Len(pairs[1].ref) # Len(pairs[1].mod)) =>
          \A i \in 1..Len(calls) :
             BodyValid(calls[i]) => calls[i].outcome = "lenmismatch"

C9_Witness ==
    /\ err = "lenmismatch"
    /\ Len(calls) = 2
    /\ calls[1].outcome = "emit"
    /\ OccursIn(calls[2].body, pairs[1].ref)

(***************************************************************************)
(* C10.  A directory of reference files.                                   *)
(***************************************************************************)
\* C10: with a directory of reference files, the body written for a valid
\* image is the left fold of first-occurrence replacement over the pairs in
\* processing order, each searched in the body as patched by the pairs
\* before it; a pair of different sizes is skipped, changes nothing and
\* stops nothing; the result kept for a pair says whether its reference was
\* found at its turn; the image is written as patched exactly when a pair
\* matched
C10_DirectoryFold ==
    \A i \in 1..Len(calls) :
       (rmode = "dir" /\ calls[i].tried /\ calls[i].outcome = "emit") =>
          /\ calls[i].results = Report(pairs, Len(pairs), calls[i].body)
          /\ calls[i].replaced
                = (\E k \in 1..Len(calls[i].results) : calls[i].results[k].matched)
          /\ SubSeq(calls[i].written, HEADER_SIZE_W80X + 1, Len(calls[i].written))
                = FoldBody(pairs, Len(pairs), calls[i].body)
          /\ IF calls[i].replaced
             THEN /\ calls[i].new_body = FoldBody(pairs, Len(pairs), calls[i].body)
                  /\ Word(calls[i].written, 24) = crc32(calls[i].new_body)
             ELSE calls[i].written = calls[i].hdr \o calls[i].body

C10_Witness ==
    \E i \in 1..Len(calls) :
       /\ rmode = "dir"
       /\ Len(calls[i].results) = 2
       /\ calls[i].results[1].matched /\ calls[i].results[2].matched
       /\ ~OccursIn(calls[i].body, pairs[2].ref)
       /\ calls[i].written # <<>>

(***************************************************************************)
(* C11.  Detection of the firmware type.                                   *)
(***************************************************************************)
\* the decision read from the bytes of the file
Decision(f) ==
    IF Len(f) < 56 THEN "wrongsize"
    ELSE IF crc32(SubSeq(f, 1, 52)) = Word(f, 52) THEN "W60x"
    ELSE IF Len(f) >= 64 THEN "W80x"
    ELSE "unknown"

\* C11: detection decides on the first bytes of the file: fewer than 56 is
\* a fatal error; else W60x iff the checksum of bytes 0..51 is the word at
\* offset 52; else W80x iff there are 64 bytes; else a fatal error of
\* unknown type.  On an error no image is read; on success the cursor is
\* where it was before detection (so it is on the error of unknown type; on
\* the error of size it is left at the end of the file)
C11_DetectionTotal ==
    status # "start" =>
       \A d \in {Decision(file)} :
          /\ d \in {"wrongsize", "unknown"} =>
                /\ status = "fatal"
                /\ err = d
                /\ ftype = ""
                /\ calls = <<>> /\ images = <<>>
                /\ pos = IF d = "wrongsize" THEN Len(file) ELSE 0
          /\ d \in Types =>
                /\ ftype = d
                /\ err \notin {"wrongsize", "unknown"}
                /\ calls = <<>> => (status = "walk" /\ pos = 0)
                /\ calls # <<>> => calls[1].readAt = 0

C11_Witness ==
    /\ status = "fatal"
    /\ err = "unknown"
    /\ Len(file) \in 56..63
    /\ calls = <<>>

(***************************************************************************)
(* C12.  No replacement for W60x.                                          *)
(***************************************************************************)
\* C12: in a walk of a container detected as W60x a replacement request is
\* never applied: no output file is opened or written, no body is searched
\* or altered, and every call of the walk does what the call of a walk with
\* no request does at the same cursor with the same image number
C12_NoReplacementW60x ==
    ftype = "W60x" =>
       /\ ~outOpen
       /\ out = <<>>
       /\ \A i \in 1..Len(calls) :
             /\ ~calls[i].tried
             /\ ~calls[i].replaced
             /\ calls[i].results = <<>>
             /\ calls[i].new_body = <<>>
             /\ calls[i].written = <<>>
             /\ calls[i].readAt = IF i = 1 THEN 0 ELSE calls[i - 1].pos
             /\ calls[i] = process_image(file, "W60x", calls[i].readAt,
                                         IF i = 1 THEN 0 ELSE calls[i - 1].ret,
                                         "none", <<>>)
       /\ \A k \in 1..Len(images) :
             images[k].body = SubSeq(file, images[k].bodyAt + 1, images[k].pos)

C12_Witness ==
    /\ ftype = "W60x"
    /\ rmode = "single"
    /\ status = "end"
    /\ Len(images) = 2
    /\ images[1].size_valid /\ images[1].checksum_valid
    /\ Eligible(pairs[1])
    /\ OccursIn(images[1].body, pairs[1].ref)

(***************************************************************************)
(* C13.  The 0xFF filler before a W60x header.                             *)
(***************************************************************************)
\* the count of whole 0xFF chunks of 4 bytes that the file holds from p on
Run(f, p) ==
    CHOOSE n \in 0..Len(f) :
       /\ read(f, p + 4 * n, 4) # FF4
       /\ \A j \in 0..(n - 1) : read(f, p + 4 * j, 4) = FF4

\* C13: for W60x, when the 56 bytes read as a header have the checksum
\* 0x27445404, the chunks of 4 bytes of 0xFF that follow are discarded, the
\* cursor is put back 4 bytes at the first chunk that differs and the 56
\* bytes from that chunk on are read as the header; when the file ends in a
\* chunk of fewer than 4 bytes the cursor is not put back and the header
\* read is empty.  For W80x nothing is skipped
C13_FillerSkip ==
    \A i \in 1..Len(calls) :
       IF ftype = "W60x" /\ crc32(read(file, calls[i].readAt, HEADER_SIZE_W60X)) = W60X_FILLER_CRC
       THEN \A q \in {calls[i].readAt + HEADER_SIZE_W60X
                        + 4 * Run(file, calls[i].readAt + HEADER_SIZE_W60X)} :
               IF Len(read(file, q, 4)) = 4
               THEN /\ calls[i].skipped = q - (calls[i].readAt + HEADER_SIZE_W60X)
                    /\ ~calls[i].empty
                    /\ ~calls[i].wrap
                    /\ calls[i].hdrAt = q
                    /\ calls[i].hdr = read(file, q, HEADER_SIZE_W60X)
               ELSE /\ calls[i].skipped = Len(file) - (calls[i].readAt + HEADER_SIZE_W60X)
                    /\ calls[i].empty
                    /\ calls[i].wrap \/ (calls[i].outcome = "end" /\ calls[i].pos = Len(file))
       ELSE /\ calls[i].skipped = 0
            /\ ~calls[i].wrap =>
                  /\ calls[i].hdrAt = calls[i].readAt
                  /\ calls[i].outcome # "end" =>
                        calls[i].hdr = read(file, calls[i].readAt, HeaderSize(ftype))

C13_Witness ==
    \E i \in 1..Len(calls) :
       /\ ftype = "W60x"
       /\ calls[i].skipped >= 4
       /\ calls[i].outcome = "emit"
       /\ calls[i].hdrAt = calls[i].readAt + HEADER_SIZE_W60X + calls[i].skipped

(***************************************************************************)
(* C14.  The padding block after a W60x header.                            *)
(***************************************************************************)
\* C14: after a header that validates, the body read of W60x starts 200
\* bytes after the end of the header when the block of up to 200 bytes there
\* has the checksum 0x947D8E12, and at the end of the header otherwise; the
\* body read of W80x starts at the end of the header
C14_PaddingPeek ==
    \A i \in 1..Len(calls) :
       (calls[i].announced /\ GoodHeader(ftype, calls[i].hdr)) =>
          \A header_end \in {calls[i].hdrAt + HeaderSize(ftype)} :
             /\ calls[i].bodyAt =
                   IF /\ ftype = "W60x"
                      /\ crc32(SubSeq(file, header_end + 1,
                                      Min(header_end + 200, Len(file))))
                            = W60X_HEADER_PADDING_CRC
                   THEN header_end + 200
                   ELSE header_end
             /\ calls[i].bodyAt <= Len(file)
             /\ calls[i].body = SubSeq(file, calls[i].bodyAt + 1, calls[i].pos)
             /\ \/ calls[i].pos = Len(file)
                \/ ToU32(calls[i].pos - calls[i].bodyAt) = Declared(calls[i])

C14_Witness ==
    \E i \in 1..Len(calls) :
       /\ ftype = "W60x"
       /\ calls[i].outcome = "emit"
       /\ calls[i].bodyAt = calls[i].hdrAt + HEADER_SIZE_W60X + W60X_HEADER_PADDING
       /\ calls[i].size_valid /\ calls[i].checksum_valid
       /\ calls[i].body # <<>>

(***************************************************************************)
(* C15.  The numbers of the images read after the move back to offset 56.  *)
(* image_increment is a local of process_image, set to 1 at line 193 in    *)
(* every call and to 0.1 only in the call that moves the cursor back.      *)
(***************************************************************************)
\* C15: on the W60x wrapped path the first sub-image is numbered 0 and each
\* image after it 0.1 more than the one before (numbers in tenths: 0, 1,
\* 2, ...)
C15_SubImageNumbering ==
    \A w \in 1..Len(calls) :
       calls[w].wrap =>
          \A i \in w..Len(calls) :
             calls[i].announced => calls[i].num = i - w

(***************************************************************************)
(* C16.  Every walk ends.                                                  *)
(***************************************************************************)
\* what every call of a walk keeps: the cursor is moved back to offset 56 in
\* at most one call; the filler loop leaves the cursor inside the file; a
\* call that emits an image without moving the cursor back leaves it at
\* least one header size after where it found it; the cursor never passes
\* the end of the file
Progress ==
    /\ Cardinality({i \in 1..Len(calls) : calls[i].wrap}) <= 1
    /\ pos <= Len(file)
    /\ \A i \in 1..Len(calls) :
          /\ calls[i].skipped >= 0
          /\ calls[i].readAt + calls[i].skipped <= Len(file)
          /\ calls[i].pos <= Len(file)
          /\ (calls[i].outcome = "emit" /\ ~calls[i].wrap) =>
                calls[i].pos >= calls[i].readAt + HeaderSize(ftype)
          /\ calls[i].outcome # "emit" => i = Len(calls)
    /\ Len(calls) < CallLimit(file)

\* C16: every walk over a file ends, for both firmware types: the cursor is
\* moved back to offset 56 at most once, the filler loop exits, every other
\* call that emits an image moves the cursor on by a header size or more,
\* and the loop of parse_firmware is left after a bounded count of calls
C16_WalkEnds == []Progress /\ <>Terminal

C16_Witness ==
    /\ status = "end"
    /\ ftype = "W60x"
    /\ Len(calls) >= 5
    /\ calls[2].wrap
    /\ calls[Len(calls)].outcome = "end"
    /\ \A i \in 1..(Len(calls) - 1) : calls[i].outcome = "emit"

(***************************************************************************)
(* C17.  The output of a replacement walk.                                 *)
(* Every write to the output is inside `if replace_target and valid_body`  *)
(* (lines 260, 308-318): an image with an invalid body is reported (line   *)
(* 328) and nothing is written for it.                                     *)
(***************************************************************************)
\* the record an emitted image is claimed to leave in the output
RecordOf(im) == IF im.replaced THEN im.written ELSE im.hdr \o im.body

RECURSIVE Records(_, _)
Records(ims, k) ==
    IF k > Len(ims) THEN <<>> ELSE RecordOf(ims[k]) \o Records(ims, k + 1)

\* C17: when a replacement walk of a W80x container ends, the output holds
\* one header and body record for every image emitted, in walk order; no
\* emitted image is missing
C17_OutputComplete ==
    (rmode # "none" /\ ftype = "W80x" /\ status = "end") =>
       out = Records(images, 1)

(***************************************************************************)
(* C18.  Every record in the output is well-formed.                        *)
(***************************************************************************)
\* the calls that wrote to the output
Writers == {i \in 1..Len(calls) : calls[i].written # <<>>}

\* C18: at every point of a replacement walk each header and body record
\* already in the output is well-formed, patched or not: the body has the
\* length the header declares, the image checksum field of the header is the
\* checksum of the body and the last field of the header is the checksum of
\* its first 60 bytes; the output is these records laid back to back
C18_OutputWellFormed ==
    /\ \A i \in Writers :
          \A h \in {SubSeq(calls[i].written, 1, HEADER_SIZE_W80X)} :
             \A b \in {SubSeq(calls[i].written, HEADER_SIZE_W80X + 1,
                              Len(calls[i].written))} :
                /\ ftype = "W80x" /\ outOpen
                /\ Len(h) = HEADER_SIZE_W80X
                /\ Word(h, 0) = MAGIC_WORD
                /\ ToU32(Len(b)) = Word(h, 12)
                /\ Word(h, 24) = crc32(b)
                /\ Word(h, 60) = crc32(SubSeq(h, 1, 60))
    /\ \A lay \in {Layout(out, "W80x", 0)} :
          /\ lay # <<-1>>
          /\ Len(lay) = Cardinality(Writers)

C18_Witness ==
    \E i, j \in Writers :
       /\ calls[i].replaced
       /\ calls[i].new_body # calls[i].body
       /\ ~calls[j].replaced
       /\ Len(out) = Len(calls[i].written) + Len(calls[j].written)

====
